---- MODULE Spec2Model ----
(***************************************************************************)
(* Model of the AssemblyScript invocation driver of massa-sc-runtime:      *)
(* ASModule::init_with_instance and ASModule::execution                    *)
(* (src/src/execution/as_execution.rs) on an engine whose metering         *)
(* middleware is configured by init_engine (src/src/as_execution/mod.rs).  *)
(*                                                                         *)
(* Option<T> is modelled as a sequence of length 0 (None) or 1 (Some).     *)
(* u64 gas values are modelled as integers: an unsigned underflow shows    *)
(* up as a negative value.                                                 *)
(***************************************************************************)
EXTENDS Integers, Sequences, FiniteSets, TLC

\* ------------------------------------------------------------------ bounds
MaxGas == 3
MaxLaunchCost == 2
MaxInstr == 2
MaxHostCalls == 1
MaxWrites == 1
MaxArity == 2

\* ------------------------------------------------------------ input sets
MAIN == "main"
FunctionNames == {MAIN, "run"}
NoExport == -1
Arities == 0..MaxArity
Lifecycle == {"__new", "__pin", "__unpin", "__collect"}
LifecycleSets == {{}, {"__new"}, Lifecycle}
Offsets == {16, 32}
Buffers == {<<>>, <<7, 9>>}
OperatorCosts == {1, 2}
AbiCosts == {0, 1}
Payloads == {<<>>, <<5>>}
I32(v) == [ty |-> "i32", v |-> v]
I64(v) == [ty |-> "i64", v |-> v]
ReturnValues ==
    {<<>>} \cup {<<I32(o)>> : o \in Offsets \cup {0}} \cup {<<I64(0)>>}
TrapCauses == {"unreachable", "abort"}
Bytecodes == {<<>>, <<0, 97>>, <<40>>, <<1, 0, 97>>, <<2>>}
Compilable == {<<0, 97>>, <<40>>}

\* ------------------------------------------------------------ error texts
ErrNotEnoughGas == "Not enough gas to launch the virtual machine"
ErrArity == "Unexpected number of parameters in the function called"
ErrReturn == "Execution wasn't in capacity to read the return value"
ErrMissingExport == "Missing export"
ErrLostPoints == "Lost reference to remaining_points"
ErrNoAllocator == "Cannot allocate: no __new export"
ErrRead == "Cannot read the buffer"
ErrGasExhausted == "gas exhausted"
ErrHostGas == "host callback: not enough gas"
ErrEmptyBytecode == "Empty bytecode"
ErrCompile == "Cannot compile the module"

VARIABLES
    calibration,    \* cfg!(feature = "gas_calibration") of the build
    gas_costs,      \* GasCosts {launch_cost, operator_cost}
    init_limit,     \* the limit the module was compiled with
    instance,       \* the exports of the wasmer Instance
    env,            \* ASModule.env
    fenv,           \* the FunctionEnv<ASEnv> copy the host callbacks read
    points,         \* global wasmer_metering_remaining_points
    exhausted,      \* global wasmer_metering_points_exhausted
    memory,         \* guest linear memory: offset -> Option<buffer>
    pc,             \* position of the driver
    function,       \* execution(function, ..)
    param,          \* execution(.., param)
    argc,           \* wasm_func.param_arity
    args,           \* the arguments passed to wasm_func.call
    res,            \* the result of wasm_func.call
    response,       \* Option<Response> returned by execution
    error,          \* Option<error> returned by execution / init_with_instance
    entry_gas,      \* history: the counter when execution was entered
    precharged,     \* history: Option<value written by the pre-charge>
    lookedUp,       \* history: get_function was called
    allocs,         \* history: number of BufferPtr::alloc allocations
    instrs,         \* history: number of guest instructions executed
    hostGas,        \* history: gas deducted by host callbacks
    hostCalls,      \* history: number of host callbacks
    writes,         \* history: number of guest stores to buffers
    called,         \* history: wasm_func.call was entered
    memAtReturn,    \* history: Option<memory when wasm_func.call returned>
    bytecode,       \* RuntimeModule::new(bytecode, ..)
    limit,          \* RuntimeModule::new(.., limit, ..)
    runtime_module, \* Option<RuntimeModule> returned by RuntimeModule::new
    delegated       \* history: Option<arguments given to ASModule::new>

config == <<calibration, gas_costs, init_limit, instance, bytecode, limit,
            runtime_module, delegated>>
envs == <<env, fenv>>
globals == <<points, exhausted>>
request == <<function, param>>
outcome == <<response, error>>
guestHist == <<instrs, hostGas, hostCalls, writes>>
vars == <<calibration, gas_costs, init_limit, instance, env, fenv, points,
          exhausted, memory, pc, function, param, argc, args, res, response,
          error, entry_gas, precharged, lookedUp, allocs, instrs, hostGas,
          hostCalls, writes, called, memAtReturn, bytecode, limit,
          runtime_module, delegated>>

\* --------------------------------------------------- Execution Environment
\* ASEnv::new: no handle is populated before init_with_instance.
NewEnv ==
    [memory |-> FALSE, fn_new |-> FALSE, fn_pin |-> FALSE, fn_unpin |-> FALSE,
     fn_collect |-> FALSE, remaining_points |-> FALSE,
     exhausted_points |-> FALSE]

InitWithAllOrNothing(e, inst) ==
    LET all == Lifecycle \subseteq inst.lifecycle
    IN  [e EXCEPT !.memory = TRUE, !.fn_new = all, !.fn_pin = all,
                  !.fn_unpin = all, !.fn_collect = all]

\* Env::init_with(memory, fn_new, fn_pin, fn_unpin, fn_collect) on the wasm
\* env of e, given the instance's exports.
InitWith(e, inst) ==
    [e EXCEPT !.memory = TRUE,
              !.fn_new = "__new" \in inst.lifecycle,
              !.fn_pin = "__pin" \in inst.lifecycle,
              !.fn_unpin = "__unpin" \in inst.lifecycle,
              !.fn_collect = "__collect" \in inst.lifecycle]

\* The function exports of an instance: name -> arity, NoExport when the
\* name is not exported.  Every pair (name, arity) occurs in some table.
ExportTables ==
    {[f \in FunctionNames |->
        IF f = MAIN THEN a
        ELSE IF a = MaxArity THEN NoExport ELSE a + 1] :
     a \in Arities \cup {NoExport}}

Instances ==
    [memory : BOOLEAN, lifecycle : LifecycleSets, g_remaining : BOOLEAN,
     g_exhausted : BOOLEAN,
     functions : ExportTables]

\* The metering middleware is the only source of the two metering globals:
\* a calibration build exports neither.
InstancesOf(calib) ==
    {i \in Instances : calib => (~i.g_remaining /\ ~i.g_exhausted)}

GasCostsSet ==
    [launch_cost : 0..MaxLaunchCost, operator_cost : OperatorCosts]

\* ------------------------------------------------------ RuntimeModule::new
\* init_engine: the middleware pushed on the compiler, by build feature.
InitEngine(l, costs) ==
    IF calibration
    THEN [middleware |-> "gas_calibration", limit |-> 0, operator_cost |-> 0]
    ELSE [middleware |-> "metering", limit |-> l,
          operator_cost |-> costs.operator_cost]

\* ASModule::new: Module::new(&engine, bytecode)? and init_limit: limit.
ASModuleNew(code, l, costs) ==
    LET engine == InitEngine(l, costs)
    IN  IF code \in Compilable
        THEN [ok |-> TRUE, err |-> "",
              module |-> <<[binary_module |-> code, init_limit |-> l,
                            engine |-> engine]>>]
        ELSE [ok |-> FALSE, err |-> ErrCompile, module |-> <<>>]

\* `bytecode.first()`
First(code) == IF code = <<>> THEN <<>> ELSE <<code[1]>>

FamilyBytecodeWithoutTag(code) == Tail(code)

\* The bytecode handed to the family's compiler: "use the full bytecode".
FamilyBytecode(code) == code

RecordedLimitIsLaunchCost(l, costs) == costs.launch_cost

\* The limit handed to the family's compiler.
FamilyLimit(l, costs) == l

\* The arguments of ASModule::new chosen by the `match` of
\* RuntimeModule::new, None for the empty bytecode.
Dispatch(code, l, costs) ==
    IF First(code) = <<>>
    THEN <<>>
    ELSE IF First(code) = <<1>>
    THEN <<[bytecode |-> FamilyBytecode(code),
            limit |-> FamilyLimit(l, costs), gas_costs |-> costs]>>
    ELSE <<[bytecode |-> FamilyBytecode(code),
            limit |-> FamilyLimit(l, costs), gas_costs |-> costs]>>

\* RuntimeModule::new(bytecode, limit, gas_costs)
RuntimeModuleNewResult(code, l, costs) ==
    LET d == Dispatch(code, l, costs)
    IN  IF d = <<>>
        THEN [ok |-> FALSE, err |-> ErrEmptyBytecode, module |-> <<>>]
        ELSE ASModuleNew(d[1].bytecode, d[1].limit, d[1].gas_costs)

\* The linear memory of a fresh instance: one static buffer, the rest free.
StaticData == <<7>>
InitialMemory ==
    [o \in Offsets |-> IF o = 16 THEN <<StaticData>> ELSE <<>>]

Init ==
    /\ calibration \in BOOLEAN
    /\ gas_costs \in GasCostsSet
    /\ init_limit \in 0..MaxGas
    /\ instance \in InstancesOf(calibration)
    /\ env = NewEnv
    /\ fenv = NewEnv
    /\ points = IF calibration THEN 0 ELSE init_limit
    /\ exhausted = 0
    /\ memory = InitialMemory
    /\ pc = "instantiated"
    /\ function = MAIN
    /\ param = <<>>
    /\ argc = 0
    /\ args = <<>>
    /\ res = [ok |-> TRUE, values |-> <<>>, cause |-> ""]
    /\ response = <<>>
    /\ error = <<>>
    /\ entry_gas = 0
    /\ precharged = <<>>
    /\ lookedUp = FALSE
    /\ allocs = 0
    /\ instrs = 0
    /\ hostGas = 0
    /\ hostCalls = 0
    /\ writes = 0
    /\ called = FALSE
    /\ memAtReturn = <<>>
    /\ bytecode = <<0, 97>>
    /\ limit = init_limit
    /\ delegated = Dispatch(bytecode, limit, gas_costs)
    /\ runtime_module =
           RuntimeModuleNewResult(bytecode, limit, gas_costs).module

\* Variants of init_with_instance: one that skips the update of self.env
\* (updateOwn = FALSE), one that stores the remaining-points handle in
\* self.env as early as in fenv (ownEarly = TRUE).
InitWithInstanceVariant(updateOwn, ownEarly) ==
    /\ pc = "instantiated"
    /\ IF ~instance.memory
       THEN /\ error' = <<ErrMissingExport>>
            /\ pc' = "init_failed"
            /\ UNCHANGED envs
       ELSE LET f1 == InitWith(fenv, instance)
                e1 == IF updateOwn THEN InitWith(env, instance) ELSE env
            IN  IF calibration
                THEN /\ fenv' = f1 /\ env' = e1
                     /\ pc' = "ready" /\ UNCHANGED error
                ELSE IF ~instance.g_remaining
                THEN /\ fenv' = f1 /\ env' = e1
                     /\ error' = <<ErrMissingExport>>
                     /\ pc' = "init_failed"
                ELSE IF ~instance.g_exhausted
                THEN /\ fenv' = [f1 EXCEPT !.remaining_points = TRUE]
                     /\ env' = IF ownEarly
                               THEN [e1 EXCEPT !.remaining_points = TRUE]
                               ELSE e1
                     /\ error' = <<ErrMissingExport>>
                     /\ pc' = "init_failed"
                ELSE /\ fenv' = [f1 EXCEPT !.remaining_points = TRUE,
                                           !.exhausted_points = TRUE]
                     /\ env' = IF updateOwn
                               THEN [e1 EXCEPT !.remaining_points = TRUE,
                                               !.exhausted_points = TRUE]
                               ELSE e1
                     /\ pc' = "ready" /\ UNCHANGED error
    /\ UNCHANGED <<config, globals, memory, request, argc, args, res,
                   response, entry_gas, precharged, lookedUp, allocs,
                   guestHist, called, memAtReturn>>

InitWithInstanceFenvOnly == InitWithInstanceVariant(FALSE, FALSE)

InitWithInstanceOwnEarly == InitWithInstanceVariant(TRUE, TRUE)

\* ------------------------------------------------------ init_with_instance
\* The whole of ASModule::init_with_instance, with the writes it has made
\* when a `?` returns early.
InitWithInstance ==
    /\ pc = "instantiated"
    /\ IF ~instance.memory
       THEN /\ error' = <<ErrMissingExport>>
            /\ pc' = "init_failed"
            /\ UNCHANGED envs
       ELSE LET f1 == InitWith(fenv, instance)
                e1 == InitWith(env, instance)
            IN  IF calibration
                THEN /\ fenv' = f1 /\ env' = e1
                     /\ pc' = "ready" /\ UNCHANGED error
                ELSE IF ~instance.g_remaining
                THEN /\ fenv' = f1 /\ env' = e1
                     /\ error' = <<ErrMissingExport>>
                     /\ pc' = "init_failed"
                ELSE IF ~instance.g_exhausted
                THEN /\ fenv' = [f1 EXCEPT !.remaining_points = TRUE]
                     /\ env' = e1
                     /\ error' = <<ErrMissingExport>>
                     /\ pc' = "init_failed"
                ELSE /\ fenv' = [f1 EXCEPT !.remaining_points = TRUE,
                                           !.exhausted_points = TRUE]
                     /\ env' = [e1 EXCEPT !.remaining_points = TRUE,
                                          !.exhausted_points = TRUE]
                     /\ pc' = "ready" /\ UNCHANGED error
    /\ UNCHANGED <<config, globals, memory, request, argc, args, res,
                   response, entry_gas, precharged, lookedUp, allocs,
                   guestHist, called, memAtReturn>>

\* --------------------------------------------------------------- execution
\* Returning Err(msg) from execution: no Response.
Fail(msg) ==
    /\ error' = <<msg>>
    /\ response' = <<>>
    /\ pc' = "done"

\* get_remaining_points(&self.env, store): the value of the remaining-points
\* global, an error when the environment holds no handle to it.
GetRemainingPoints(e) ==
    IF e.remaining_points
    THEN [ok |-> TRUE, v |-> points]
    ELSE [ok |-> FALSE, v |-> 0]

NotEnoughGasOffByOne(cost, remaining) == cost > remaining + 1

NotEnoughGasAtBoundary(cost, remaining) == cost >= remaining

\* `metering_initial_cost > remaining_gas`
NotEnoughGas(cost, remaining) == cost > remaining

AfterLaunchRefund(remaining, cost) == remaining + cost

AfterLaunchUncharged(remaining, cost) == remaining

\* `remaining_gas - metering_initial_cost`
AfterLaunch(remaining, cost) == remaining - cost

CallsWithoutArgumentAnyName(n, f) == n = 0

\* `argc == 0 && function == crate::settings::MAIN`
CallsWithoutArgument(n, f) == n = 0 /\ f = MAIN

CallsWithArgumentOrMore(n) == n >= 1

\* `argc == 1`
CallsWithArgument(n) == n = 1

IsMainWrongName(f) == f = "Main"

\* `function.eq(crate::settings::MAIN)`
IsMain(f) == f = MAIN

AsI32AnyType(value) == <<value.v>>

\* `offset.i32()`: Some for an I32 value only.
AsI32(value) == IF value.ty = "i32" THEN <<value.v>> ELSE <<>>

BufferReadBeforeCall(mem, offset) ==
    IF offset \in DOMAIN InitialMemory /\ InitialMemory[offset] # <<>>
    THEN [ok |-> TRUE, bytes |-> InitialMemory[offset][1]]
    ELSE [ok |-> FALSE, bytes |-> <<>>]

\* `buffer_ptr.read(memory, store)`: the buffer stored at the offset, an
\* error where the offset holds none.
BufferRead(mem, offset) ==
    IF offset \in DOMAIN mem /\ mem[offset] # <<>>
    THEN [ok |-> TRUE, bytes |-> mem[offset][1]]
    ELSE [ok |-> FALSE, bytes |-> <<>>]

OperatorCostIsLaunchCost == gas_costs.launch_cost

\* The cost function given to Metering::new: every operator costs
\* gas_costs.operator_cost.
OperatorCost == gas_costs.operator_cost

\* The caller enters execution(instance, store, function, param).
Execution ==
    /\ pc = "ready"
    /\ function' \in FunctionNames
    /\ param' \in Payloads
    /\ entry_gas' = points
    /\ pc' = "precharge"
    /\ UNCHANGED <<config, envs, globals, memory, argc, args, res, outcome,
                   precharged, lookedUp, allocs, guestHist, called,
                   memAtReturn>>

\* A pre-charge that deducts (saturating) before it compares.
PreChargeDeductFirst ==
    /\ pc = "precharge"
    /\ IF calibration
       THEN /\ pc' = "lookup"
            /\ UNCHANGED <<points, precharged, outcome>>
       ELSE LET remaining_gas == GetRemainingPoints(env)
                metering_initial_cost == gas_costs.launch_cost
            IN  IF ~remaining_gas.ok
                THEN Fail(ErrLostPoints) /\ UNCHANGED <<points, precharged>>
                ELSE IF NotEnoughGas(metering_initial_cost, remaining_gas.v)
                THEN /\ Fail(ErrNotEnoughGas)
                     /\ points' = 0
                     /\ UNCHANGED precharged
                ELSE /\ points' =
                            AfterLaunch(remaining_gas.v, metering_initial_cost)
                     /\ precharged' = <<points'>>
                     /\ pc' = "lookup"
                     /\ UNCHANGED outcome
    /\ UNCHANGED <<config, envs, exhausted, memory, request, argc, args, res,
                   entry_gas, lookedUp, allocs, guestHist, called,
                   memAtReturn>>

\* Lines 36-44: the launch cost is charged before anything else.
PreCharge ==
    /\ pc = "precharge"
    /\ IF calibration
       THEN /\ pc' = "lookup"
            /\ UNCHANGED <<points, precharged, outcome>>
       ELSE LET remaining_gas == GetRemainingPoints(env)
                metering_initial_cost == gas_costs.launch_cost
            IN  IF ~remaining_gas.ok
                THEN Fail(ErrLostPoints) /\ UNCHANGED <<points, precharged>>
                ELSE IF NotEnoughGas(metering_initial_cost, remaining_gas.v)
                THEN Fail(ErrNotEnoughGas) /\ UNCHANGED <<points, precharged>>
                ELSE /\ points' =
                            AfterLaunch(remaining_gas.v, metering_initial_cost)
                     /\ precharged' = <<points'>>
                     /\ pc' = "lookup"
                     /\ UNCHANGED outcome
    /\ UNCHANGED <<config, envs, exhausted, memory, request, argc, args, res,
                   entry_gas, lookedUp, allocs, guestHist, called,
                   memAtReturn>>

\* Lines 47-48: instance.exports.get_function(function)? and param_arity.
GetFunction ==
    /\ pc = "lookup"
    /\ lookedUp' = TRUE
    /\ IF instance.functions[function] = NoExport
       THEN Fail(ErrMissingExport) /\ UNCHANGED argc
       ELSE /\ argc' = instance.functions[function]
            /\ pc' = "marshal"
            /\ UNCHANGED outcome
    /\ UNCHANGED <<config, envs, globals, memory, request, args, res,
                   entry_gas, precharged, allocs, guestHist, called,
                   memAtReturn>>

\* Lines 49-56: the three-way branch on the arity.  BufferPtr::alloc needs
\* the __new handle of the environment and then runs the guest allocator.
Marshal ==
    /\ pc = "marshal"
    /\ IF CallsWithoutArgument(argc, function)
       THEN /\ args' = <<>>
            /\ called' = TRUE
            /\ pc' = "guest"
            /\ UNCHANGED outcome
       ELSE IF CallsWithArgument(argc)
       THEN IF env.fn_new
            THEN /\ pc' = "alloc"
                 /\ UNCHANGED <<args, called, outcome>>
            ELSE Fail(ErrNoAllocator) /\ UNCHANGED <<args, called>>
       ELSE Fail(ErrArity) /\ UNCHANGED <<args, called>>
    /\ UNCHANGED <<config, envs, globals, memory, request, argc, res,
                   entry_gas, precharged, lookedUp, allocs, guestHist,
                   memAtReturn>>

AllocReturnEmptyBuffer ==
    /\ pc = "alloc"
    /\ \E o \in Offsets :
          /\ memory[o] = <<>>
          /\ memory' = [memory EXCEPT ![o] = <<<<>>>>]
          /\ args' = <<I32(o)>>
    /\ allocs' = allocs + 1
    /\ called' = TRUE
    /\ pc' = "guest"
    /\ UNCHANGED <<config, envs, globals, request, argc, res, outcome,
                   entry_gas, precharged, lookedUp, guestHist, memAtReturn>>

\* Line 52-53: the guest allocator returns a free offset, the payload is
\* written there and the export is called with that offset.
AllocReturn ==
    /\ pc = "alloc"
    /\ \E o \in Offsets :
          /\ memory[o] = <<>>
          /\ memory' = [memory EXCEPT ![o] = <<param>>]
          /\ args' = <<I32(o)>>
    /\ allocs' = allocs + 1
    /\ called' = TRUE
    /\ pc' = "guest"
    /\ UNCHANGED <<config, envs, globals, request, argc, res, outcome,
                   entry_gas, precharged, lookedUp, guestHist, memAtReturn>>

\* A trap while the guest runs: inside the allocator it is returned by the
\* `?` of line 52, inside the export it is the Err of wasm_func.call.
Trap(cause) ==
    IF pc = "alloc"
    THEN Fail(cause) /\ UNCHANGED res
    ELSE /\ res' = [ok |-> FALSE, values |-> <<>>, cause |-> cause]
         /\ pc' = "returned"
         /\ UNCHANGED outcome

\* One guest instruction under the middleware installed by init_engine:
\* metering charges OperatorCost and traps once the points are exhausted,
\* calibration only counts.
GuestInstr ==
    /\ pc \in {"alloc", "guest"}
    /\ instrs < MaxInstr
    /\ IF calibration
       THEN /\ instrs' = instrs + 1
            /\ UNCHANGED <<globals, pc, res, outcome>>
       ELSE IF points < OperatorCost
       THEN /\ exhausted' = 1
            /\ Trap(ErrGasExhausted)
            /\ UNCHANGED <<points, instrs>>
       ELSE /\ points' = points - OperatorCost
            /\ instrs' = instrs + 1
            /\ UNCHANGED <<exhausted, pc, res, outcome>>
    /\ UNCHANGED <<config, envs, memory, request, argc, args, entry_gas,
                   precharged, lookedUp, allocs, hostGas, hostCalls, writes,
                   called, memAtReturn>>

\* A host callback bound to fenv: it deducts its own cost from the counter
\* and aborts the execution when the counter does not cover it.
HostCallback ==
    /\ pc = "guest"
    /\ hostCalls < MaxHostCalls
    /\ hostCalls' = hostCalls + 1
    /\ \E cost \in AbiCosts :
          IF calibration
          THEN UNCHANGED <<points, hostGas, pc, res, outcome>>
          ELSE IF cost > points
          THEN Trap(ErrHostGas) /\ UNCHANGED <<points, hostGas>>
          ELSE /\ points' = points - cost
               /\ hostGas' = hostGas + cost
               /\ UNCHANGED <<pc, res, outcome>>
    /\ UNCHANGED <<config, envs, exhausted, memory, request, argc, args,
                   entry_gas, precharged, lookedUp, allocs, instrs, writes,
                   called, memAtReturn>>

\* The guest stores a buffer in its linear memory.
GuestWrite ==
    /\ pc = "guest"
    /\ writes < MaxWrites
    /\ writes' = writes + 1
    /\ \E o \in Offsets, b \in Buffers :
          memory' = [memory EXCEPT ![o] = <<b>>]
    /\ UNCHANGED <<config, envs, globals, pc, request, argc, args, res,
                   outcome, entry_gas, precharged, lookedUp, allocs, instrs,
                   hostGas, hostCalls, called, memAtReturn>>

\* The guest traps (unreachable, abort).
GuestTrap ==
    /\ pc \in {"alloc", "guest"}
    /\ \E cause \in TrapCauses : Trap(cause)
    /\ UNCHANGED <<config, envs, globals, memory, request, argc, args,
                   entry_gas, precharged, lookedUp, allocs, guestHist,
                   called, memAtReturn>>

\* The export returns: wasm_func.call is Ok(values).
GuestReturn ==
    /\ pc = "guest"
    /\ \E values \in ReturnValues :
          res' = [ok |-> TRUE, values |-> values, cause |-> ""]
    /\ memAtReturn' = <<memory>>
    /\ pc' = "returned"
    /\ UNCHANGED <<config, envs, globals, memory, request, argc, args,
                   outcome, entry_gas, precharged, lookedUp, allocs,
                   guestHist, called>>

FinalGasAlwaysRead == GetRemainingPoints(env)

\* Lines 61-65 and 83-87: the gas attached to the Response.
FinalGas ==
    IF calibration THEN [ok |-> TRUE, v |-> 0] ELSE GetRemainingPoints(env)

\* Lines 72-82: the bytes of the Response of a non-main export.
ReturnBytes(value) ==
    IF Len(value) > 0
    THEN LET offset == AsI32(value[1])
         IN  IF offset # <<>>
             THEN IF ~instance.memory
                  THEN [ok |-> FALSE, err |-> ErrMissingExport, bytes |-> <<>>]
                  ELSE LET r == BufferRead(memory, offset[1])
                       IN  IF r.ok
                           THEN [ok |-> TRUE, err |-> "", bytes |-> r.bytes]
                           ELSE [ok |-> FALSE, err |-> ErrRead, bytes |-> <<>>]
             ELSE [ok |-> FALSE, err |-> ErrReturn, bytes |-> <<>>]
    ELSE [ok |-> TRUE, err |-> "", bytes |-> <<>>]

\* Ok(Response {ret, remaining_gas: remaining_gas?})
Respond(ret, remaining_gas) ==
    IF remaining_gas.ok
    THEN /\ response' = <<[ret |-> ret, remaining_gas |-> remaining_gas.v]>>
         /\ error' = <<>>
         /\ pc' = "done"
    ELSE Fail(ErrLostPoints)

MatchErrSwallowed(cause) == Respond(<<>>, FinalGas)

\* Line 93: `Err(error) => bail!(error)`.
MatchErr(cause) == Fail(cause)

\* Lines 58-94: `match res`.
Extract ==
    /\ pc = "returned"
    /\ IF res.ok
       THEN IF IsMain(function)
            THEN Respond(<<>>, FinalGas)
            ELSE LET ret == ReturnBytes(res.values)
                 IN  IF ret.ok
                     THEN Respond(ret.bytes, FinalGas)
                     ELSE Fail(ret.err)
       ELSE MatchErr(res.cause)
    /\ UNCHANGED <<config, envs, globals, memory, request, argc, args, res,
                   entry_gas, precharged, lookedUp, allocs, guestHist,
                   called, memAtReturn>>

Next ==
    \/ InitWithInstance
    \/ Execution
    \/ PreCharge
    \/ GetFunction
    \/ Marshal
    \/ AllocReturn
    \/ GuestInstr
    \/ HostCallback
    \/ GuestWrite
    \/ GuestTrap
    \/ GuestReturn
    \/ Extract

Spec == Init /\ [][Next]_vars

\* ------------------------------------------------------------------ claims
Production == ~calibration
PastPreCharge == pc \in {"lookup", "marshal", "alloc", "guest", "returned",
                         "done"}
Succeeded == pc = "done" /\ response # <<>>
Exported(f) == instance.functions[f] # NoExport

\* C1: in production metering mode, when the launch cost exceeds the gas
\* remaining at entry, execution ends with the not-enough-gas error and no
\* Response, and it has neither looked the export up, nor allocated an
\* argument, nor run a guest instruction, nor called the export.
C1_LaunchCostAboveGasFails ==
    (Production /\ PastPreCharge /\ gas_costs.launch_cost > entry_gas) =>
        /\ pc = "done"
        /\ error = <<ErrNotEnoughGas>>
        /\ response = <<>>
        /\ ~lookedUp
        /\ allocs = 0
        /\ instrs = 0
        /\ hostCalls = 0
        /\ ~called

C1_Witness ==
    /\ Production
    /\ pc = "done"
    /\ gas_costs.launch_cost > entry_gas
    /\ entry_gas > 0
    /\ error = <<ErrNotEnoughGas>>

\* C2: in production metering mode, when the launch cost is at most the gas
\* remaining at entry (the boundary of equality included), the pre-charge
\* writes exactly the difference to the counter, a value that is not
\* negative, and when it has done so the export is not yet looked up, no
\* argument is allocated and no guest code has run.
C2_PreChargeDeductsLaunchCost ==
    (Production /\ PastPreCharge /\ gas_costs.launch_cost <= entry_gas) =>
        /\ precharged = <<entry_gas - gas_costs.launch_cost>>
        /\ precharged[1] >= 0
        /\ pc = "lookup" =>
              /\ points = precharged[1]
              /\ ~lookedUp
              /\ allocs = 0
              /\ instrs = 0
              /\ hostCalls = 0
              /\ ~called

C2_Witness ==
    /\ Production
    /\ pc = "lookup"
    /\ gas_costs.launch_cost = entry_gas
    /\ entry_gas > 0
    /\ points = 0

\* C3: a successful invocation of the main entry point returns an empty
\* byte payload, whatever main returned and whether it took zero or one
\* parameter.
C3_MainReturnsEmpty ==
    (Succeeded /\ function = MAIN) => response[1].ret = <<>>

C3_Witness ==
    /\ Succeeded
    /\ function = MAIN
    /\ argc = 1
    /\ Len(res.values) = 1
    /\ res.values[1].ty = "i32"
    /\ res.values[1].v \in Offsets
    /\ memory[res.values[1].v] = <<<<7, 9>>>>

\* C4: a successful invocation of a non-main export whose first returned
\* value is an i32 offset returns the buffer that the guest memory held at
\* that offset when the call of the export returned.
C4_ResponseIsBufferAtReturn ==
    (/\ Succeeded
     /\ function # MAIN
     /\ Len(res.values) > 0
     /\ res.values[1].ty = "i32") =>
        /\ memAtReturn # <<>>
        /\ res.values[1].v \in Offsets
        /\ memAtReturn[1][res.values[1].v] = <<response[1].ret>>

C4_Witness ==
    /\ Succeeded
    /\ function # MAIN
    /\ writes > 0
    /\ Len(res.values) > 0
    /\ res.values[1].ty = "i32"
    /\ response[1].ret = <<7, 9>>
    /\ InitialMemory[res.values[1].v] = <<<<7>>>>

\* C5: in production metering mode no step of an execution raises the
\* remaining-gas counter, and the remaining_gas of a Response is the value
\* of the counter when the execution returns.
C5_GasNeverIncreases ==
    [][Production =>
          /\ (pc \in {"precharge", "lookup", "marshal", "alloc", "guest",
                      "returned"} => points' <= points)
          /\ (pc' = "done" /\ response' # <<>> =>
                  response'[1].remaining_gas = points')]_vars

C5_Witness ==
    /\ Production
    /\ Succeeded
    /\ gas_costs.launch_cost > 0
    /\ instrs > 0
    /\ hostGas > 0
    /\ response[1].remaining_gas = points
    /\ points < entry_gas

\* C6 as stated: a successful main invocation in production metering mode
\* returns no bytes and a remaining gas of
\* init_limit - launch_cost - n * operator_cost, n the number of guest
\* instructions executed.
C6_Original ==
    (Production /\ Succeeded /\ function = MAIN) =>
        response[1] =
            [ret |-> <<>>,
             remaining_gas |-> init_limit - gas_costs.launch_cost
                                 - instrs * gas_costs.operator_cost]

\* C6 as amended: the remaining gas is
\* init_limit - launch_cost - n * operator_cost - H, H the gas that the host
\* callbacks called by the guest have deducted.
C6_RemainingGasOfMain ==
    (Production /\ Succeeded /\ function = MAIN) =>
        response[1] =
            [ret |-> <<>>,
             remaining_gas |-> init_limit - gas_costs.launch_cost
                                 - instrs * gas_costs.operator_cost
                                 - hostGas]

C6_Witness ==
    /\ Production
    /\ Succeeded
    /\ function = MAIN
    /\ gas_costs.launch_cost > 0
    /\ instrs > 0
    /\ hostGas > 0
    /\ response[1].remaining_gas = 0

\* C7: the export is called only with zero or one parameter, with zero
\* only when it is the main entry point; an export of two or more
\* parameters that reaches the arity check ends the execution with the
\* unexpected-number-of-parameters error and is never called.
C7_OnlyArityZeroOrOneIsCalled ==
    /\ called =>
          /\ Exported(function)
          /\ instance.functions[function] \in {0, 1}
          /\ instance.functions[function] = 0 => function = MAIN
    /\ (/\ pc \in {"alloc", "guest", "returned", "done"}
        /\ lookedUp
        /\ Exported(function)
        /\ instance.functions[function] >= 2) =>
          /\ pc = "done"
          /\ error = <<ErrArity>>
          /\ response = <<>>
          /\ ~called
          /\ allocs = 0

C7_Witness ==
    /\ pc = "done"
    /\ lookedUp
    /\ Exported(function)
    /\ instance.functions[function] >= 2
    /\ error = <<ErrArity>>

\* C8 as stated: a non-main export that takes no argument, invoked with
\* sufficient gas, is called and is not rejected for its parameter count.
C8_Original ==
    (/\ pc = "done"
     /\ function # MAIN
     /\ Exported(function)
     /\ instance.functions[function] = 0
     /\ (Production => gas_costs.launch_cost <= entry_gas)) =>
        /\ called
        /\ error # <<ErrArity>>

\* C8 as amended: a non-main export is called only when it takes exactly
\* one argument; a non-main export that takes no argument, invoked with
\* sufficient gas, is rejected with the unexpected-number-of-parameters
\* error, is never called and yields no Response.
C8_ZeroArityNonMainIsRejected ==
    /\ (called /\ function # MAIN) => instance.functions[function] = 1
    /\ (/\ pc = "done"
        /\ function # MAIN
        /\ Exported(function)
        /\ instance.functions[function] = 0
        /\ (Production => gas_costs.launch_cost <= entry_gas)) =>
          /\ ~called
          /\ error = <<ErrArity>>
          /\ response = <<>>

C8_Witness ==
    /\ pc = "done"
    /\ function # MAIN
    /\ Exported(function)
    /\ instance.functions[function] = 0
    /\ Production
    /\ gas_costs.launch_cost <= entry_gas
    /\ error = <<ErrArity>>

\* C9: when the call of a non-main export has returned, the execution ends
\* with an empty Response payload if the guest returned no value, and with
\* the cannot-read-the-return-value error and no Response if the first
\* returned value is not an i32.
C9_ReturnShape ==
    (pc = "done" /\ function # MAIN /\ memAtReturn # <<>>) =>
        /\ res.values = <<>> =>
              /\ response # <<>>
              /\ response[1].ret = <<>>
              /\ error = <<>>
        /\ (res.values # <<>> /\ res.values[1].ty # "i32") =>
              /\ error = <<ErrReturn>>
              /\ response = <<>>

C9_Witness ==
    /\ pc = "done"
    /\ function # MAIN
    /\ memAtReturn # <<>>
    /\ res.values = <<I64(0)>>
    /\ error = <<ErrReturn>>

C9_WitnessNoValue ==
    /\ pc = "done"
    /\ function # MAIN
    /\ memAtReturn # <<>>
    /\ res.values = <<>>
    /\ response # <<>>

\* The bytes of the Response read at an offset, for the steps of C10.
ReturnReadable ==
    function # MAIN =>
        \/ res.values = <<>>
        \/ /\ res.values[1].ty = "i32"
           /\ res.values[1].v \in Offsets
           /\ memory[res.values[1].v] # <<>>

\* C10: an execution ends with a Response or with an error, never both and
\* never neither; a Response is returned only when every step succeeded
\* (pre-charge, export lookup, arity, argument allocation, the guest call,
\* reading the return value); a trap of the guest, gas exhaustion included,
\* ends the execution with the trap's cause as the error.
C10_ResponseOrError ==
    pc = "done" =>
        /\ (response = <<>>) # (error = <<>>)
        /\ Len(response) <= 1 /\ Len(error) <= 1
        /\ response # <<>> =>
              /\ Production => precharged # <<>>
              /\ lookedUp
              /\ Exported(function)
              /\ instance.functions[function] \in {0, 1}
              /\ instance.functions[function] = 1 => allocs = 1
              /\ called
              /\ memAtReturn # <<>>
              /\ res.ok
              /\ exhausted = 0
              /\ ReturnReadable
        /\ (called /\ ~res.ok) => error = <<res.cause>>
        /\ exhausted = 1 => error = <<ErrGasExhausted>>

C10_Witness ==
    /\ pc = "done"
    /\ called
    /\ ~res.ok
    /\ res.cause = ErrGasExhausted
    /\ exhausted = 1
    /\ error = <<ErrGasExhausted>>
    /\ response = <<>>

\* ------------------------------------------- RuntimeModule::new, as a step
\* The state before RuntimeModule::new is called: no module, no instance.
NoInstance ==
    [memory |-> FALSE, lifecycle |-> {}, g_remaining |-> FALSE,
     g_exhausted |-> FALSE, functions |-> [f \in FunctionNames |-> NoExport]]

InitNew ==
    /\ calibration \in BOOLEAN
    /\ gas_costs \in GasCostsSet
    /\ bytecode \in Bytecodes
    /\ limit \in 0..MaxGas
    /\ init_limit = 0
    /\ runtime_module = <<>>
    /\ delegated = <<>>
    /\ instance = NoInstance
    /\ env = NewEnv
    /\ fenv = NewEnv
    /\ points = 0
    /\ exhausted = 0
    /\ memory = InitialMemory
    /\ pc = "new"
    /\ function = MAIN
    /\ param = <<>>
    /\ argc = 0
    /\ args = <<>>
    /\ res = [ok |-> TRUE, values |-> <<>>, cause |-> ""]
    /\ response = <<>>
    /\ error = <<>>
    /\ entry_gas = 0
    /\ precharged = <<>>
    /\ lookedUp = FALSE
    /\ allocs = 0
    /\ instrs = 0
    /\ hostGas = 0
    /\ hostCalls = 0
    /\ writes = 0
    /\ called = FALSE
    /\ memAtReturn = <<>>

\* The whole of RuntimeModule::new(bytecode, limit, gas_costs).
RuntimeModuleNew ==
    /\ pc = "new"
    /\ LET r == RuntimeModuleNewResult(bytecode, limit, gas_costs)
       IN  /\ delegated' = Dispatch(bytecode, limit, gas_costs)
           /\ runtime_module' = r.module
           /\ IF r.ok
              THEN /\ init_limit' = r.module[1].init_limit
                   /\ pc' = "compiled"
                   /\ UNCHANGED error
              ELSE /\ error' = <<r.err>>
                   /\ pc' = "new_failed"
                   /\ UNCHANGED init_limit
    /\ UNCHANGED <<calibration, gas_costs, instance, bytecode, limit, envs,
                   globals, memory, request, argc, args, res, response,
                   entry_gas, precharged, lookedUp, allocs, guestHist,
                   called, memAtReturn>>

NextNew == RuntimeModuleNew

SpecNew == InitNew /\ [][NextNew]_vars

\* C13: RuntimeModule::new returns the empty-bytecode error for the empty
\* byte sequence without handing anything to a compiler; for every
\* non-empty byte sequence, whatever its first byte, it hands the whole
\* bytecode and the given limit to ASModule::new, and a module that results
\* is the AssemblyScript module of that bytecode with init_limit equal to
\* the limit.
C13_NewDispatch ==
    pc \in {"compiled", "new_failed"} =>
        /\ bytecode = <<>> =>
              /\ pc = "new_failed"
              /\ error = <<ErrEmptyBytecode>>
              /\ runtime_module = <<>>
              /\ delegated = <<>>
        /\ bytecode # <<>> =>
              /\ delegated = <<[bytecode |-> bytecode, limit |-> limit,
                                gas_costs |-> gas_costs]>>
              /\ error # <<ErrEmptyBytecode>>
              /\ pc = "compiled" =>
                    /\ runtime_module # <<>>
                    /\ runtime_module[1].binary_module = bytecode
                    /\ runtime_module[1].init_limit = limit
                    /\ init_limit = limit

C13_Witness ==
    /\ pc = "compiled"
    /\ bytecode = <<40>>
    /\ limit > 0
    /\ runtime_module # <<>>
    /\ runtime_module[1].init_limit = limit

C13_WitnessEmpty ==
    /\ pc = "new_failed"
    /\ bytecode = <<>>
    /\ error = <<ErrEmptyBytecode>>

C13_WitnessFirstByteOne ==
    /\ pc = "new_failed"
    /\ First(bytecode) = <<1>>
    /\ delegated # <<>>
    /\ delegated[1].bytecode = bytecode

\* ------------------------------- init_with_instance on any instance at all
\* Every combination of exports: memory or not, any subset of the four
\* lifecycle functions, either metering global or not.
AllInstances ==
    [memory : BOOLEAN, lifecycle : SUBSET Lifecycle, g_remaining : BOOLEAN,
     g_exhausted : BOOLEAN, functions : ExportTables]

AllInstancesOf(calib) ==
    {i \in AllInstances : calib => (~i.g_remaining /\ ~i.g_exhausted)}

InitAnyInstance ==
    /\ calibration \in BOOLEAN
    /\ gas_costs \in GasCostsSet
    /\ init_limit \in 0..MaxGas
    /\ instance \in AllInstancesOf(calibration)
    /\ env = NewEnv
    /\ fenv = NewEnv
    /\ points = IF calibration THEN 0 ELSE init_limit
    /\ exhausted = 0
    /\ memory = InitialMemory
    /\ pc = "instantiated"
    /\ function = MAIN
    /\ param = <<>>
    /\ argc = 0
    /\ args = <<>>
    /\ res = [ok |-> TRUE, values |-> <<>>, cause |-> ""]
    /\ response = <<>>
    /\ error = <<>>
    /\ entry_gas = 0
    /\ precharged = <<>>
    /\ lookedUp = FALSE
    /\ allocs = 0
    /\ instrs = 0
    /\ hostGas = 0
    /\ hostCalls = 0
    /\ writes = 0
    /\ called = FALSE
    /\ memAtReturn = <<>>
    /\ bytecode = <<0, 97>>
    /\ limit = init_limit
    /\ delegated = Dispatch(bytecode, limit, gas_costs)
    /\ runtime_module =
           RuntimeModuleNewResult(bytecode, limit, gas_costs).module

NextInit == InitWithInstance

SpecInit == InitAnyInstance /\ [][NextInit]_vars

\* The handles of the wasm env of e are exactly the exports of the instance.
HandlesMatchExports(e) ==
    /\ e.memory
    /\ e.fn_new <=> "__new" \in instance.lifecycle
    /\ e.fn_pin <=> "__pin" \in instance.lifecycle
    /\ e.fn_unpin <=> "__unpin" \in instance.lifecycle
    /\ e.fn_collect <=> "__collect" \in instance.lifecycle

BothGlobalsExported == instance.g_remaining /\ instance.g_exhausted

\* C11: init_with_instance fails when the instance exports no memory; with
\* memory exported (and, in production metering mode, both metering globals)
\* it succeeds for every subset of the four lifecycle exports, storing a
\* handle for each one present and none for each one absent; in production
\* metering mode it fails when either metering global is not exported.
C11_InitOutcome ==
    pc \in {"ready", "init_failed"} =>
        /\ ~instance.memory =>
              pc = "init_failed" /\ error = <<ErrMissingExport>>
        /\ (instance.memory /\ (calibration \/ BothGlobalsExported)) =>
              /\ pc = "ready"
              /\ error = <<>>
              /\ HandlesMatchExports(env)
              /\ HandlesMatchExports(fenv)
        /\ (Production /\ ~BothGlobalsExported) =>
              pc = "init_failed" /\ error = <<ErrMissingExport>>

C11_Witness ==
    /\ pc = "ready"
    /\ instance.lifecycle = {"__pin", "__collect"}
    /\ env.fn_pin /\ env.fn_collect
    /\ ~env.fn_new /\ ~env.fn_unpin

\* C12 as stated: in every state of either environment copy, the states
\* left by a failed init_with_instance included, the remaining-points handle
\* and the exhausted-flag handle are both present or both absent; both are
\* present after a successful init in production metering mode, both
\* absent in calibration mode.
C12_Original ==
    /\ env.remaining_points <=> env.exhausted_points
    /\ fenv.remaining_points <=> fenv.exhausted_points
    /\ (pc = "ready" /\ Production) =>
          /\ env.remaining_points /\ env.exhausted_points
          /\ fenv.remaining_points /\ fenv.exhausted_points
    /\ calibration =>
          /\ ~env.remaining_points /\ ~env.exhausted_points
          /\ ~fenv.remaining_points /\ ~fenv.exhausted_points

\* C18: after init_with_instance has returned Ok, the module's own
\* environment and the function-env copy of the host callbacks hold the
\* same memory handle, the same four lifecycle handles and the same two
\* metering-global handles.
C18_EnvCopiesAgree ==
    pc = "ready" =>
        /\ env = fenv
        /\ env.memory
        /\ Production => env.remaining_points /\ env.exhausted_points

C18_Witness ==
    /\ pc = "ready"
    /\ Production
    /\ instance.lifecycle = {"__new", "__unpin"}
    /\ fenv.fn_new /\ fenv.fn_unpin /\ ~fenv.fn_pin
    /\ fenv.remaining_points /\ env.remaining_points
    /\ env.fn_new

\* C19: an init_with_instance that fails for want of an exported memory
\* modifies no handle of either environment copy, and an init_with_instance
\* that fails for any reason leaves the module's own environment without a
\* metering-global handle.
C19_FailedInitFrame ==
    [][pc' = "init_failed" =>
          /\ (~instance.memory => env' = env /\ fenv' = fenv)
          /\ ~env'.remaining_points
          /\ ~env'.exhausted_points]_vars

C19_Witness ==
    /\ pc = "init_failed"
    /\ instance.memory
    /\ instance.g_remaining
    /\ ~instance.g_exhausted
    /\ fenv.remaining_points
    /\ ~env.remaining_points
    /\ env.memory

C19_WitnessNoMemory ==
    /\ pc = "init_failed"
    /\ ~instance.memory
    /\ instance.lifecycle = Lifecycle
    /\ env = NewEnv
    /\ fenv = NewEnv

\* C14: in calibration mode the pre-charge does nothing (no comparison with
\* the launch cost, no deduction, no read of a metering global, of which the
\* environment holds no handle), and every Response, of main and of any
\* other export, reports a remaining gas of 0.
C14_CalibrationSkipsGas ==
    calibration =>
        /\ precharged = <<>>
        /\ points = 0
        /\ exhausted = 0
        /\ ~env.remaining_points /\ ~env.exhausted_points
        /\ error # <<ErrNotEnoughGas>>
        /\ error # <<ErrLostPoints>>
        /\ error # <<ErrGasExhausted>>
        /\ Succeeded => response[1].remaining_gas = 0
        /\ (pc = "done" /\ memAtReturn # <<>> /\ ReturnReadable) => Succeeded

C14_Witness ==
    /\ calibration
    /\ Succeeded
    /\ function # MAIN
    /\ gas_costs.launch_cost > init_limit
    /\ instrs > 0
    /\ hostCalls > 0
    /\ response[1].remaining_gas = 0

C14_WitnessMain ==
    /\ calibration
    /\ Succeeded
    /\ function = MAIN
    /\ gas_costs.launch_cost > init_limit
    /\ response[1].remaining_gas = 0

\* C15: a call of a one-parameter export allocates exactly one guest
\* buffer, after the pre-charge and before the export is entered, writes
\* the caller's payload into it unmodified and passes the i32 offset of
\* that buffer as the single argument; when the allocation fails the
\* export is never called.
C15_OneArgumentMarshalling ==
    /\ allocs <= 1
    /\ pc = "alloc" =>
          /\ lookedUp
          /\ Production => precharged # <<>>
          /\ instance.functions[function] = 1
          /\ ~called
          /\ allocs = 0
          /\ hostCalls = 0
          /\ writes = 0
    /\ (called /\ instance.functions[function] = 1) =>
          /\ allocs = 1
          /\ Len(args) = 1
          /\ args[1].ty = "i32"
          /\ args[1].v \in Offsets
          /\ InitialMemory[args[1].v] = <<>>
          /\ writes = 0 => memory[args[1].v] = <<param>>
    /\ (called /\ instance.functions[function] = 0) =>
          allocs = 0 /\ args = <<>>
    /\ (pc = "done" /\ allocs = 0 /\ lookedUp /\ Exported(function)
        /\ instance.functions[function] = 1) =>
          /\ ~called
          /\ response = <<>>
          /\ memory = InitialMemory

C15_Witness ==
    /\ pc = "guest"
    /\ instance.functions[function] = 1
    /\ allocs = 1
    /\ instrs > 0
    /\ writes = 0
    /\ param = <<5>>
    /\ args = <<I32(32)>>
    /\ memory[32] = <<<<5>>>>

C15_WitnessNoAllocator ==
    /\ pc = "done"
    /\ instance.functions[function] = 1
    /\ ~env.fn_new
    /\ error = <<ErrNoAllocator>>
    /\ ~called

\* C16: in production metering mode an execution that fails after the
\* pre-charge has succeeded leaves the counter at most at its value at
\* entry minus the launch cost: the launch cost is not refunded.
C16_LaunchCostNotRefunded ==
    (Production /\ pc = "done" /\ error # <<>> /\ precharged # <<>>) =>
        /\ precharged[1] = entry_gas - gas_costs.launch_cost
        /\ points <= entry_gas - gas_costs.launch_cost

C16_Witness ==
    /\ Production
    /\ pc = "done"
    /\ error = <<ErrArity>>
    /\ precharged # <<>>
    /\ gas_costs.launch_cost > 0
    /\ points = entry_gas - gas_costs.launch_cost

\* C17: the step of execution that fails with the not-enough-gas error
\* leaves the metering counter, the exhausted flag, the guest memory and
\* both environment copies as they were when execution was entered, and
\* allocates nothing.
C17_NotEnoughGasFrame ==
    [][(pc = "precharge" /\ error' = <<ErrNotEnoughGas>>) =>
          /\ points' = points
          /\ points' = entry_gas
          /\ exhausted' = exhausted
          /\ memory' = memory
          /\ env' = env
          /\ fenv' = fenv
          /\ allocs' = 0
          /\ precharged' = <<>>]_vars

C17_Witness ==
    /\ pc = "done"
    /\ error = <<ErrNotEnoughGas>>
    /\ points = entry_gas
    /\ points > 0
    /\ env.fn_new
    /\ memory = InitialMemory
    /\ allocs = 0

====
